---- MODULE Spec2Model ----
(***************************************************************************)
(* A model of the execution core of the vectorized PromQL engine:          *)
(*   - execution/scan/vector_selector.go : the leaf scan operator and its  *)
(*     point selection (selectPoint),                                      *)
(*   - execution/binary/vector.go        : the binary-join operator, its   *)
(*     output construction (signature, hashSeries, join,                  *)
(*     buildOutputSeries, initOutputs) and its Series/Next.                *)
(*                                                                         *)
(* Four specifications share the module:                                   *)
(*   SpecSelect : one memoized sample iterator driven by selectPoint with  *)
(*                non-decreasing step timestamps, as the scan drives it;   *)
(*   Spec       : one scan operator under any sequence of Series/Next;     *)
(*   SpecBinary : one binary operator over two child operators that are    *)
(*                known only through the VectorOperator interface;         *)
(*   SpecOnce   : callers running Series and Next concurrently on a scan   *)
(*                operator or on a binary operator, one statement that     *)
(*                touches the operator at a time.                          *)
(***************************************************************************)
EXTENDS Integers, Sequences, FiniteSets, TLC

VARIABLES
    \* ---- SpecSelect: one series iterator and the last selectPoint call
    spIt,          \* the MemoizedSeriesIterator
    spLookback,    \* lookbackDelta
    spOffset,      \* offset
    spCall,        \* the last selectPoint call: its input and its result
    \* ---- Spec: the scan operator (vectorSelector)
    queryOpts,     \* query.Options and the selector's offset, as configured
    storage,       \* what GetSeries returns: [err, series]
    scan,          \* the vectorSelector's fields
    scanCall,      \* the last Series/Next call on the scan and what it returned
    \* ---- SpecBinary: the binary operator (vectorOperator)
    matching,      \* parser.VectorMatching: [On, MatchingLabels, Card, Include]
    children,      \* what lhs.Series / rhs.Series return
    bin,           \* the vectorOperator's fields
    binCall,       \* the last Series/Next call on the operator and what it returned
    \* ---- SpecOnce: concurrent callers of the two operators
    callers,       \* per caller: where it is in its call and what it saw
    once           \* per operator: its sync.Once and how often its work ran

selectVars == <<spIt, spLookback, spOffset, spCall>>
scanVars   == <<queryOpts, storage, scan, scanCall>>
binVars    == <<matching, children, bin, binCall>>
onceVars   == <<callers, once>>
vars       == <<spIt, spLookback, spOffset, spCall, queryOpts, storage, scan, scanCall,
                matching, children, bin, binCall, callers, once>>

(***************************************************************************)
(* Bounds of the model.                                                    *)
(***************************************************************************)
\* Timestamps of samples and of the query window range over 0..MaxT.
MaxT == 3
\* A series holds at most MaxSamples samples (SpecSelect).
MaxSamples == 2
\* lookbackDelta ranges over 0..MaxLookback.
MaxLookback == 2
\* offset ranges over 0..MaxOffset.
MaxOffset == 1

Times == 0..MaxT

(***************************************************************************)
(* Sample values.  StaleNaN stands for the stale marker that               *)
(* value.IsStaleNaN recognises; 1 and 2 are ordinary values.               *)
(***************************************************************************)
StaleNaN == -1
Values == {1, 2, StaleNaN}

IsStaleNaN(v) == v = StaleNaN

\* The "no time" sentinel of the memoized iterator (math.MinInt64): below every
\* timestamp the model can form.
MinInt64 == -1000

\* All sample sequences with strictly increasing timestamps, at most n samples.
RECURSIVE SampleSeqs(_)
SampleSeqs(n) ==
    IF n = 0 THEN {<<>>}
    ELSE SampleSeqs(n - 1) \cup
         UNION { { Append(s, [t |-> t, v |-> v]) :
                     t \in {u \in Times : \A i \in 1..Len(s) : s[i].t < u},
                     v \in Values } :
                 s \in {x \in SampleSeqs(n - 1) : Len(x) = n - 1} }

(***************************************************************************)
(* storage.MemoizedSeriesIterator over a chunk iterator.                   *)
(* pos is the position of the underlying iterator: pos \in 1..Len(samples) *)
(* is "at sample pos", pos > Len(samples) is "exhausted".                  *)
(***************************************************************************)
\* NewMemoizedIterator(it, delta): Reset calls it.Next() once.
NewMemoizedIterator(samples, delta) ==
    [samples |-> samples, pos |-> 1, delta |-> delta, lastTime |-> MinInt64,
     ok |-> TRUE, prevTime |-> MinInt64, prevValue |-> 0]

\* it.Seek(t) of the underlying iterator: the first sample at or after the
\* current one with timestamp >= t; exhausted when there is none.
ChunkSeek(samples, pos, t) ==
    LET cand == {i \in pos..Len(samples) : samples[i].t >= t}
    IN  IF cand = {} THEN Len(samples) + 1
        ELSE CHOOSE i \in cand : \A j \in cand : i <= j

\* MemoizedSeriesIterator.Next: remember the current element, advance by one.
MemoNext(b) ==
    IF ~b.ok THEN b
    ELSE [b EXCEPT !.prevTime  = b.samples[b.pos].t,
                   !.prevValue = b.samples[b.pos].v,
                   !.pos       = b.pos + 1,
                   !.ok        = b.pos + 1 <= Len(b.samples),
                   !.lastTime  = IF b.pos + 1 <= Len(b.samples)
                                 THEN b.samples[b.pos + 1].t
                                 ELSE b.lastTime]

\* The loop "for b.Next() { if b.lastTime >= t { return true } }; return false":
\* MemoAdvance makes the call of Next, MemoAdvanced looks at what it returned.
RECURSIVE MemoAdvance(_, _)
RECURSIVE MemoAdvanced(_, _)
MemoAdvanced(b1, t) ==
    IF ~b1.ok THEN [it |-> b1, ok |-> FALSE]
    ELSE IF b1.lastTime >= t THEN [it |-> b1, ok |-> TRUE]
    ELSE MemoAdvance(b1, t)

MemoAdvance(b, t) == MemoAdvanced(MemoNext(b), t)

\* The second half of Seek: the current element if it is at or after t, else
\* the loop over Next.
MemoSeekForward(b, t) ==
    IF b.lastTime >= t THEN [it |-> b, ok |-> TRUE] ELSE MemoAdvance(b, t)

\* The first half of Seek when t - delta is past the last element seen: forget
\* the previous element and seek the underlying iterator to position p1.
MemoSeekJump(b, p1) ==
    [b EXCEPT !.prevTime = MinInt64,
              !.pos = p1,
              !.ok = p1 <= Len(b.samples),
              !.lastTime = IF p1 <= Len(b.samples) THEN b.samples[p1].t
                           ELSE b.lastTime]

MemoSeekJumped(b1, t) ==
    IF ~b1.ok THEN [it |-> b1, ok |-> FALSE] ELSE MemoSeekForward(b1, t)

\* MemoizedSeriesIterator.Seek(t).
MemoSeek(b, t) ==
    IF t - b.delta > b.lastTime
    THEN MemoSeekJumped(MemoSeekJump(b, ChunkSeek(b.samples, b.pos, t - b.delta)), t)
    ELSE MemoSeekForward(b, t)

\* MemoizedSeriesIterator.PeekPrev.
MemoPeekPrev(b) ==
    IF b.prevTime = MinInt64 THEN [t |-> 0, v |-> 0, ok |-> FALSE]
    ELSE [t |-> b.prevTime, v |-> b.prevValue, ok |-> TRUE]

\* MemoizedSeriesIterator.At.
MemoAt(b) == b.samples[b.pos]

(***************************************************************************)
(* selectPoint (vector_selector.go:152-172).  The result carries the       *)
(* iterator after the call.                                                *)
(***************************************************************************)
NotFound(it) == [it |-> it, t |-> 0, v |-> 0, ok |-> FALSE]

\* Mutant: the stale check is missing.
selectValueNoStaleCheck(it, s) == [it |-> it, t |-> s.t, v |-> s.v, ok |-> TRUE]

\* vector_selector.go:168-171: a stale candidate is no point.
selectValue(it, s) ==
    IF IsStaleNaN(s.v) THEN NotFound(it)
    ELSE [it |-> it, t |-> s.t, v |-> s.v, ok |-> TRUE]

\* Mutant: the lookback bound is exclusive.
selectPrevExclusiveLookback(it, pp, refTime, lookbackDelta) ==
    IF ~pp.ok \/ pp.t <= refTime - lookbackDelta THEN NotFound(it)
    ELSE selectValue(it, pp)

\* vector_selector.go:163-166: the previous sample, if it is inside the lookback.
selectPrev(it, pp, refTime, lookbackDelta) ==
    IF ~pp.ok \/ pp.t < refTime - lookbackDelta THEN NotFound(it)
    ELSE selectValue(it, pp)

\* vector_selector.go:158-171, with sk what it.Seek(refTime) returned.
selectSought(sk, refTime, lookbackDelta) ==
    IF ~sk.ok \/ MemoAt(sk.it).t > refTime
    THEN selectPrev(sk.it, MemoPeekPrev(sk.it), refTime, lookbackDelta)
    ELSE selectValue(sk.it, MemoAt(sk.it))

selectPoint(it, ts, lookbackDelta, offset) ==
    selectSought(MemoSeek(it, ts - offset), ts - offset, lookbackDelta)

(***************************************************************************)
(* SpecSelect: the scan's use of one series iterator.  Successive steps    *)
(* never move back in time (vector_selector.go:114, 122).                  *)
(***************************************************************************)
NoSpCall == [called |-> FALSE, ts |-> 0, t |-> 0, v |-> 0, ok |-> FALSE]

SelectInit ==
    /\ \E s \in SampleSeqs(MaxSamples), lb \in 0..MaxLookback, off \in 0..MaxOffset :
          /\ spIt = NewMemoizedIterator(s, lb)
          /\ spLookback = lb
          /\ spOffset = off
    /\ spCall = NoSpCall
    /\ queryOpts = <<>>
    /\ storage = <<>>
    /\ scan = <<>>
    /\ scanCall = <<>>
    /\ matching = <<>>
    /\ children = <<>>
    /\ bin = <<>>
    /\ binCall = <<>>
    /\ callers = <<>>
    /\ once = <<>>

selectPointReturns(ts, r) ==
    /\ spIt' = r.it
    /\ spCall' = [called |-> TRUE, ts |-> ts, t |-> r.t, v |-> r.v, ok |-> r.ok]

\* One iteration of the scan's inner loop for this series at step timestamp ts.
selectPointCall ==
    \E ts \in Times :
       /\ spCall.called => ts >= spCall.ts
       /\ selectPointReturns(ts, selectPoint(spIt, ts, spLookback, spOffset))
       /\ UNCHANGED <<onceVars, spLookback, spOffset, scanVars, binVars>>

SelectNext == selectPointCall

SpecSelect == SelectInit /\ [][SelectNext]_vars

(***************************************************************************)
(* Point selection, stated without the iterator: the candidate of a step   *)
(* is the sample with the greatest timestamp at or before refTime.         *)
(***************************************************************************)
AtOrBefore(samples, refTime) == {i \in 1..Len(samples) : samples[i].t <= refTime}

Candidate(samples, refTime) ==
    samples[CHOOSE i \in AtOrBefore(samples, refTime) :
                \A j \in AtOrBefore(samples, refTime) : j <= i]

HasCandidate(samples, refTime) == AtOrBefore(samples, refTime) # {}

\* The candidate exists, is inside the lookback window and is not stale.
Selectable(samples, refTime, lookbackDelta) ==
    /\ HasCandidate(samples, refTime)
    /\ Candidate(samples, refTime).t >= refTime - lookbackDelta
    /\ ~IsStaleNaN(Candidate(samples, refTime).v)

\* C4: selectPoint returns found, with the timestamp and value of the latest
\* sample at or before refTime = ts - offset, exactly when that sample exists,
\* is not older than refTime - lookbackDelta and is not stale; otherwise it
\* returns not found.  A sample after refTime is never returned.
C4_SelectPointWindow ==
    spCall.called =>
        IF Selectable(spIt.samples, spCall.ts - spOffset, spLookback)
        THEN /\ spCall.ok
             /\ spCall.t = Candidate(spIt.samples, spCall.ts - spOffset).t
             /\ spCall.v = Candidate(spIt.samples, spCall.ts - spOffset).v
             /\ spCall.t <= spCall.ts - spOffset
        ELSE ~spCall.ok

\* A point found exactly on the lookback boundary while a later sample exists.
C4_Witness ==
    /\ spCall.called
    /\ spCall.ok
    /\ spLookback > 0
    /\ spCall.t = spCall.ts - spOffset - spLookback
    /\ \E i \in 1..Len(spIt.samples) : spIt.samples[i].t > spCall.ts - spOffset


(***************************************************************************)
(* The scan operator (vectorSelector).                                     *)
(***************************************************************************)
\* The most series a selector resolves.
MaxSeries == 2

\* Query windows: start <= end within Times, a step, a batch width.
StepChoices == {0, 1, 2}
StepsBatchChoices == {1, 2}
LookbackChoices == {0, 1}
OffsetChoices == {0, 1}

\* The sample data a stored series may hold: no sample, a single sample, a
\* sample followed by a stale marker, a stale marker followed by a sample.
ScanSeriesData ==
    { <<>>,
      <<[t |-> 0, v |-> 1]>>,
      <<[t |-> 0, v |-> 1], [t |-> 1, v |-> StaleNaN]>>,
      <<[t |-> 1, v |-> StaleNaN], [t |-> 2, v |-> 2]>> }

\* Sequences over S of length at most n.
RECURSIVE SeqsUpTo(_, _)
SeqsUpTo(S, n) ==
    IF n = 0 THEN {<<>>}
    ELSE LET shorter == SeqsUpTo(S, n - 1)
         IN  shorter \cup
             { Append(s, x) : s \in {y \in shorter : Len(y) = n - 1}, x \in S }

\* model.VectorPool.GetVectorBatch: an empty batch.
GetVectorBatch == <<>>

\* model.VectorPool.GetStepVector(ts): an empty step vector stamped ts.
GetStepVector(ts) == [T |-> ts, SampleIDs |-> <<>>, Samples |-> <<>>]

\* query.Options.NumSteps: an instant evaluation (step 0) runs as one step, a
\* range evaluation in batches of StepsBatch steps, or of all its steps when
\* these are fewer.
NumSteps(opts) ==
    IF opts.Step = 0 THEN 1
    ELSE IF opts.StepsBatch < (opts.End - opts.Start) \div opts.Step + 1
         THEN opts.StepsBatch
         ELSE (opts.End - opts.Start) \div opts.Step + 1

\* NewVectorSelector (vector_selector.go:49-71).
NewVectorSelector(opts) ==
    [onceDone |-> FALSE, scanners |-> <<>>, series |-> <<>>, stepSize |-> 0,
     mint |-> opts.Start, maxt |-> opts.End, step |-> opts.Step,
     currentStep |-> opts.Start, lookbackDelta |-> opts.LookbackDelta,
     offset |-> opts.Offset, numSteps |-> NumSteps(opts)]

\* loadSeries (vector_selector.go:127-149): the body runs under sync.Once, so
\* only the first call runs it; err is a local of each call.
loadSeries(o, st) ==
    IF o.onceDone THEN [o |-> o, err |-> FALSE]
    ELSE IF st.err THEN [o |-> [o EXCEPT !.onceDone = TRUE], err |-> TRUE]
    ELSE [o |-> [o EXCEPT
                   !.onceDone = TRUE,
                   !.scanners = [i \in 1..Len(st.series) |->
                                   [labels |-> st.series[i].Labels,
                                    signature |-> st.series[i].Signature,
                                    samples |-> NewMemoizedIterator(
                                                   st.series[i].Samples,
                                                   o.lookbackDelta)]],
                   !.series = [i \in 1..Len(st.series) |-> st.series[i].Labels],
                   !.stepSize = Len(st.series)],
          err |-> FALSE]

\* Mutant: a step vector is taken from the pool for every (series, step).
ensureVectorAlways(vectors, currStep, seriesTs) ==
    Append(vectors, GetStepVector(seriesTs))

\* vector_selector.go:106-108: the step vector of this batch index is taken
\* from the pool the first time the index is needed.
ensureVector(vectors, currStep, seriesTs) ==
    IF Len(vectors) <= currStep THEN Append(vectors, GetStepVector(seriesTs))
    ELSE vectors

\* vector_selector.go:110-113: a found point is appended to the step vector.
appendPoint(vectors, currStep, signature, sp) ==
    IF sp.ok
    THEN [vectors EXCEPT ![currStep + 1].SampleIDs = Append(@, signature),
                         ![currStep + 1].Samples = Append(@, sp.v)]
    ELSE vectors

\* The inner loop of Next for one series (vector_selector.go:105-115):
\* seriesLoop tests the loop condition, seriesStep is the loop body, with sp
\* what selectPoint returned.
RECURSIVE seriesLoop(_, _, _, _, _)
RECURSIVE seriesStep(_, _, _, _, _, _)
seriesStep(o, vectors, series, seriesTs, currStep, sp) ==
    seriesLoop(o, appendPoint(vectors, currStep, series.signature, sp),
               [series EXCEPT !.samples = sp.it], seriesTs + o.step, currStep + 1)

seriesLoop(o, vectors, series, seriesTs, currStep) ==
    IF ~(currStep < o.numSteps /\ seriesTs <= o.maxt)
    THEN [vectors |-> vectors, series |-> series]
    ELSE seriesStep(o, ensureVector(vectors, currStep, seriesTs), series, seriesTs,
                    currStep,
                    selectPoint(series.samples, seriesTs, o.lookbackDelta, o.offset))

\* The outer loop of Next over the scanners (vector_selector.go:99-116), with r
\* what the inner loop left.
RECURSIVE scannersLoop(_, _, _)
RECURSIVE scannersStep(_, _, _)
scannersStep(o, i, r) ==
    scannersLoop([o EXCEPT !.scanners[i] = r.series], r.vectors, i + 1)

scannersLoop(o, vectors, i) ==
    IF i > Len(o.scanners) THEN [o |-> o, vectors |-> vectors]
    ELSE scannersStep(o, i, seriesLoop(o, vectors, o.scanners[i], o.currentStep, 0))

\* Mutant: the cursor advances by one step, not by a batch of steps.
advanceCursorSingleStep(o) ==
    [o EXCEPT !.step = IF o.step = 0 THEN 1 ELSE o.step,
              !.currentStep = o.currentStep + (IF o.step = 0 THEN 1 ELSE o.step)]

\* Mutant: the zero step is not normalised.
advanceCursorNoNormalise(o) ==
    [o EXCEPT !.currentStep = o.currentStep + o.step * o.numSteps]

\* The end of Next (vector_selector.go:117-122): normalise a zero step, then
\* advance the cursor by step * numSteps.
advanceCursor(o) ==
    [o EXCEPT !.step = IF o.step = 0 THEN 1 ELSE o.step,
              !.currentStep = o.currentStep
                              + (IF o.step = 0 THEN 1 ELSE o.step) * o.numSteps]

\* vector_selector.go:97-124, with r what the loops left.
scanNextBatch(r) == [o |-> advanceCursor(r.o), err |-> FALSE, batch |-> r.vectors]

\* vector_selector.go:93-124, with ld what loadSeries returned.
scanNextLoaded(ld) ==
    IF ld.err THEN [o |-> ld.o, err |-> TRUE, batch |-> <<>>]
    ELSE scanNextBatch(scannersLoop(ld.o, GetVectorBatch, 1))

\* vectorSelector.Next (vector_selector.go:88-125) as a function of the
\* operator and the storage: the operator afterwards and what is returned.
scanNext(o, st) ==
    IF o.currentStep > o.maxt THEN [o |-> o, err |-> FALSE, batch |-> <<>>]
    ELSE scanNextLoaded(loadSeries(o, st))

scanSeriesLoaded(ld) ==
    IF ld.err THEN [o |-> ld.o, err |-> TRUE, series |-> <<>>]
    ELSE [o |-> ld.o, err |-> FALSE, series |-> ld.o.series]

\* vectorSelector.Series (vector_selector.go:77-82).
scanSeries(o, st) == scanSeriesLoaded(loadSeries(o, st))

ScanCallNone(op) ==
    [op |-> op, err |-> FALSE, series |-> <<>>, batch |-> <<>>,
     cursor |-> 0, step |-> 0, parity |-> 0, emitted |-> <<>>]

\* The series a selector may resolve: series i carries signature i.
StoredSeries(data) ==
    [i \in 1..Len(data) |->
        [Labels |-> <<<<"series", i>>>>, Signature |-> i, Samples |-> data[i]]]

ZeroOpts ==
    [Start |-> 0, End |-> 0, Step |-> 0, LookbackDelta |-> 0, Offset |-> 0,
     StepsBatch |-> 1]

\* Before the operator is constructed.
ScanInit ==
    /\ queryOpts = ZeroOpts
    /\ storage = [err |-> FALSE, series |-> <<>>]
    /\ scan = NewVectorSelector(ZeroOpts)
    /\ scanCall = ScanCallNone("unconstructed")
    /\ spIt = <<>>
    /\ spLookback = 0
    /\ spOffset = 0
    /\ spCall = <<>>
    /\ matching = <<>>
    /\ children = <<>>
    /\ bin = <<>>
    /\ binCall = <<>>
    /\ callers = <<>>
    /\ once = <<>>

Constructed == scanCall.op # "unconstructed"

\* The planner constructs the operator over a storage selector for a query
\* window: start <= end, a step >= 0, batches of at most StepsBatch steps.
newVectorSelector ==
    /\ ~Constructed
    /\ \E start \in Times, end \in Times, step \in StepChoices,
          sb \in StepsBatchChoices, lb \in LookbackChoices, off \in OffsetChoices :
          /\ start <= end
          /\ queryOpts' = [Start |-> start, End |-> end, Step |-> step,
                           LookbackDelta |-> lb, Offset |-> off, StepsBatch |-> sb]
    /\ \E failing \in BOOLEAN, data \in SeqsUpTo(ScanSeriesData, MaxSeries) :
          /\ failing => data = <<>>
          /\ storage' = [err |-> failing, series |-> StoredSeries(data)]
    /\ scan' = NewVectorSelector(queryOpts')
    /\ scanCall' = ScanCallNone("none")
    /\ UNCHANGED <<onceVars, selectVars, binVars>>

\* The call returns: the operator is updated and the call is recorded with the
\* cursor and the step it started from.  parity flips with every call of Next,
\* which tells one call of Next from the next one; emitted lists the timestamps
\* of all the vectors Next has returned so far.
scanSeriesReturns(r) ==
    /\ scan' = r.o
    /\ scanCall' = [op |-> "Series", err |-> r.err, series |-> r.series,
                    batch |-> <<>>, cursor |-> scan.currentStep, step |-> scan.step,
                    parity |-> scanCall.parity, emitted |-> scanCall.emitted]

scanNextReturns(r) ==
    /\ scan' = r.o
    /\ scanCall' = [op |-> "Next", err |-> r.err, series |-> <<>>,
                    batch |-> r.batch, cursor |-> scan.currentStep, step |-> scan.step,
                    parity |-> 1 - scanCall.parity,
                    emitted |-> scanCall.emitted
                                \o [i \in 1..Len(r.batch) |-> r.batch[i].T]]

\* A caller invokes Series on the scan operator.
vectorSelectorSeries ==
    /\ Constructed
    /\ scanSeriesReturns(scanSeries(scan, storage))
    /\ UNCHANGED <<onceVars, queryOpts, storage, selectVars, binVars>>

\* A caller invokes Next on the scan operator.
vectorSelectorNext ==
    /\ Constructed
    /\ scanNextReturns(scanNext(scan, storage))
    /\ UNCHANGED <<onceVars, queryOpts, storage, selectVars, binVars>>

ScanNext == newVectorSelector \/ vectorSelectorSeries \/ vectorSelectorNext

Spec == ScanInit /\ [][ScanNext]_vars


(***************************************************************************)
(* Claims about the scan operator.                                         *)
(***************************************************************************)
NextReturned == scanCall.op = "Next"
NextReturnedEmpty == NextReturned /\ ~scanCall.err /\ Len(scanCall.batch) = 0

\* C1: Next returns an empty batch with nil error only when the cursor has
\* passed the end time: while currentStep <= maxt and series loading does not
\* fail, Next returns a non-empty batch, for every series set.
C1_EmptyOnlyWhenExhausted ==
    (NextReturned /\ scanCall.cursor <= scan.maxt /\ ~storage.err)
        => (~scanCall.err /\ Len(scanCall.batch) > 0)

\* C2: when GetSeries fails, every Series call and every Next call made while
\* the cursor is not past the end time returns the error.
C2_LoadErrorToEveryCaller ==
    (/\ storage.err
     /\ scanCall.op \in {"Series", "Next"}
     /\ (scanCall.op = "Next" => scanCall.cursor <= scan.maxt))
        => scanCall.err

\* The samples the storage holds for the series with signature sig.
SamplesOf(sig) == storage.series[sig].Samples

\* C5: a (series, step) whose candidate sample is stale contributes nothing to
\* the step vector of that step, even when an older sample that is not stale
\* lies inside the lookback window; no step vector carries the stale value.
C5_StaleIsAbsent ==
    (NextReturned /\ ~scanCall.err) =>
        \A i \in 1..Len(scanCall.batch) :
            /\ \A k \in 1..Len(scanCall.batch[i].Samples) :
                  ~IsStaleNaN(scanCall.batch[i].Samples[k])
            /\ \A sc \in 1..Len(scan.scanners) :
                  (/\ HasCandidate(SamplesOf(sc), scanCall.batch[i].T - scan.offset)
                   /\ IsStaleNaN(Candidate(SamplesOf(sc),
                                           scanCall.batch[i].T - scan.offset).v))
                      => \A k \in 1..Len(scanCall.batch[i].SampleIDs) :
                            scanCall.batch[i].SampleIDs[k] # scan.scanners[sc].signature

\* A step whose candidate is stale while an older sample that is not stale is
\* inside the lookback window, in a step vector that holds another series.
C5_Witness ==
    /\ NextReturned
    /\ ~scanCall.err
    /\ \E i \in 1..Len(scanCall.batch), sc \in 1..Len(scan.scanners) :
          /\ HasCandidate(SamplesOf(sc), scanCall.batch[i].T - scan.offset)
          /\ IsStaleNaN(Candidate(SamplesOf(sc), scanCall.batch[i].T - scan.offset).v)
          /\ \E j \in 1..Len(SamplesOf(sc)) :
                /\ ~IsStaleNaN(SamplesOf(sc)[j].v)
                /\ SamplesOf(sc)[j].t <= scanCall.batch[i].T - scan.offset
                /\ SamplesOf(sc)[j].t >= scanCall.batch[i].T - scan.offset
                                          - scan.lookbackDelta
          /\ Len(scanCall.batch[i].SampleIDs) > 0

\* C6: in every batch Next returns, the vector at batch index i (from 0)
\* carries timestamp c + i * step, with c the cursor and step the step the call
\* started from; for an instant query (step 0, start = end) every vector
\* carries the query timestamp.
C6_BatchTimestamps ==
    (NextReturned /\ ~scanCall.err) =>
        /\ \A i \in 1..Len(scanCall.batch) :
              scanCall.batch[i].T = scanCall.cursor + (i - 1) * scanCall.step
        /\ (queryOpts.Step = 0 /\ queryOpts.Start = queryOpts.End)
              => \A i \in 1..Len(scanCall.batch) :
                    scanCall.batch[i].T = queryOpts.Start

\* A second batch of two vectors, shared by two series.
C6_Witness ==
    /\ NextReturned
    /\ ~scanCall.err
    /\ Len(scanCall.batch) >= 2
    /\ Len(scan.scanners) >= 2
    /\ scanCall.cursor > queryOpts.Start

Exhausted == scan.currentStep > scan.maxt

\* C7: under repeated calls of Next the cursor passes the end time after
\* finitely many calls, also when the configured step is 0, and from then on it
\* stays past the end time, so that every later Next reports exhaustion.
NextCalledForever == []<>(scanCall.parity = 0) /\ []<>(scanCall.parity = 1)

C7_ScanTerminates == NextCalledForever => <>[]Exhausted

\* An instant query (step 0) whose Next has reported exhaustion.
C7_Witness ==
    /\ queryOpts.Step = 0
    /\ NextReturnedEmpty
    /\ scanCall.cursor > scan.maxt
    /\ Len(scan.scanners) > 0

\* The timestamps of the steps of the query, in order.
ExpectedCount ==
    IF queryOpts.Step = 0 THEN 1
    ELSE (queryOpts.End - queryOpts.Start) \div queryOpts.Step + 1

ExpectedTimestamps ==
    [k \in 1..ExpectedCount |-> queryOpts.Start + (k - 1) * queryOpts.Step]

\* A range query with a positive step or an instant query, over a storage that
\* resolves at least one series.
StepsDefined ==
    /\ Constructed
    /\ ~storage.err
    /\ Len(storage.series) >= 1
    /\ (queryOpts.Step > 0 \/ queryOpts.Start = queryOpts.End)

\* C17: with at least one resolved series the vectors of successive Next calls
\* carry, in call order, the timestamps start, start+step, ... <= end, each
\* once and none skipped, all of them once the scan is exhausted; a batch
\* holds at most numSteps vectors, and a call that is not exhausted advances
\* the cursor by step * numSteps (step 1 for an instant query).
C17_StepsEmittedOnceInOrder ==
    StepsDefined =>
        /\ Len(scanCall.emitted) <= ExpectedCount
        /\ scanCall.emitted = SubSeq(ExpectedTimestamps, 1, Len(scanCall.emitted))
        /\ Exhausted => scanCall.emitted = ExpectedTimestamps
        /\ NextReturned => Len(scanCall.batch) <= scan.numSteps
        /\ (NextReturned /\ scanCall.cursor <= scan.maxt) =>
              scan.currentStep = scanCall.cursor + scan.step * scan.numSteps

\* Three steps emitted in batches of two: the second batch is cut at the end.
C17_Witness ==
    /\ StepsDefined
    /\ Exhausted
    /\ scan.numSteps = 2
    /\ Len(scanCall.emitted) = 3
    /\ Len(scanCall.batch) = 1

(***************************************************************************)
(* The binary-join operator (vectorOperator).                              *)
(*                                                                         *)
(* A label set (labels.Labels) is a sequence of [Name, Value] records; a   *)
(* well-formed one is sorted by name.  NameRank is the byte order of the   *)
(* label names.                                                            *)
(***************************************************************************)
MetricName == "__name__"

NameRank == [n \in {"__name__", "a", "b"} |->
                IF n = "__name__" THEN 0 ELSE IF n = "a" THEN 1 ELSE 2]

\* The most series a child operator reports.
MaxJoinSeries == 3
\* The most step vectors in a batch a child returns.
MaxBatch == 2

\* The series a child may report: a metric name and the labels a and b.  The
\* first two agree on a, the first and the third agree on b.
SeriesUniverse ==
    { << [Name |-> MetricName, Value |-> "m"], [Name |-> "a", Value |-> "x"],
         [Name |-> "b", Value |-> "x"] >>,
      << [Name |-> MetricName, Value |-> "m"], [Name |-> "a", Value |-> "x"],
         [Name |-> "b", Value |-> "y"] >>,
      << [Name |-> MetricName, Value |-> "m"], [Name |-> "a", Value |-> "y"],
         [Name |-> "b", Value |-> "x"] >> }

Range(f) == {f[i] : i \in DOMAIN f}

\* Lists of distinct series, at most n long.
DistinctSeqs(S, n) == {q \in SeqsUpTo(S, n) : Cardinality(Range(q)) = Len(q)}

\* parser.VectorMatching as the planner may hand it over; include labels come
\* with group_left / group_right only.
MatchingChoices ==
    { [On |-> on, MatchingLabels |-> ml, Card |-> cd, Include |-> inc] :
        on \in BOOLEAN, ml \in {<<>>, <<"a">>},
        cd \in {"CardOneToOne", "CardManyToOne", "CardOneToMany"},
        inc \in {<<>>, <<"b">>} }
    \ { [On |-> on, MatchingLabels |-> ml, Card |-> "CardOneToOne", Include |-> <<"b">>] :
        on \in BOOLEAN, ml \in {<<>>, <<"a">>} }

\* The subsequence of the labels whose name satisfies keep, in order
\* (labels.Builder.Del / Keep followed by Labels(nil)).
RECURSIVE FilterLabels(_, _)
FilterLabels(lbls, names) ==
    IF lbls = <<>> THEN <<>>
    ELSE IF Head(lbls).Name \in names
         THEN <<Head(lbls)>> \o FilterLabels(Tail(lbls), names)
         ELSE FilterLabels(Tail(lbls), names)

NamesOf(lbls) == {lbls[i].Name : i \in 1..Len(lbls)}

\* labels.NewBuilder(m).Del(ns...).Labels(nil)
DelLabels(lbls, ns) == FilterLabels(lbls, NamesOf(lbls) \ ns)

\* labels.NewBuilder(m).Keep(ns...).Labels(nil)
KeepLabels(lbls, ns) == FilterLabels(lbls, ns)

\* signature (vector.go:250-271).  The 64-bit hash is modelled by the labels
\* it hashes (no collisions); the key 0 of an empty "on" list by <<>>.
signature(metric, without, grouping, keepOriginalLabels) ==
    IF without
    THEN [key |-> DelLabels(metric, Range(grouping) \cup {MetricName}),
          lbls |-> IF keepOriginalLabels THEN DelLabels(metric, {MetricName})
                   ELSE DelLabels(metric, Range(grouping) \cup {MetricName})]
    ELSE [key |-> IF Len(grouping) = 0 THEN <<>>
                  ELSE KeepLabels(metric, Range(grouping)),
          lbls |-> IF keepOriginalLabels THEN DelLabels(metric, {MetricName})
                   ELSE KeepLabels(DelLabels(metric, {MetricName}), Range(grouping))]

\* The members of a finite set of integers in increasing order.
RECURSIVE Ascending(_)
Ascending(S) ==
    IF S = {} THEN <<>>
    ELSE <<CHOOSE x \in S : \A y \in S : x <= y>>
         \o Ascending(S \ {CHOOSE x \in S : \A y \in S : x <= y})

\* hashSeries (vector.go:181-198), with sigs the signature of every series:
\* per key, the series of the key and their input IDs, in input order.
hashSeriesOf(sigs) ==
    [hashes |->
        [k \in {sigs[i].key : i \in 1..Len(sigs)} |->
            [j \in 1..Cardinality({i \in 1..Len(sigs) : sigs[i].key = k}) |->
                [ID |-> Ascending({i \in 1..Len(sigs) : sigs[i].key = k})[j] - 1,
                 Metric |-> sigs[Ascending({i \in 1..Len(sigs) : sigs[i].key = k})[j]].lbls]]],
     inputIndex |->
        [k \in {sigs[i].key : i \in 1..Len(sigs)} |->
            [j \in 1..Cardinality({i \in 1..Len(sigs) : sigs[i].key = k}) |->
                Ascending({i \in 1..Len(sigs) : sigs[i].key = k})[j] - 1]]]

hashSeries(series, keepLabels, m) ==
    hashSeriesOf([i \in 1..Len(series) |->
                     signature(series[i], ~m.On, m.MatchingLabels, keepLabels)])

\* buildOutputSeries (vector.go:273-282).
buildOutputSeries(seriesID, highCardSeries, lowCardSeries, includeLabels) ==
    [ID |-> seriesID,
     Metric |-> IF Len(includeLabels) > 0
                THEN highCardSeries.Metric
                     \o KeepLabels(lowCardSeries.Metric, Range(includeLabels))
                ELSE highCardSeries.Metric]

\* The sum of the lengths of the groups of a hash map.
RECURSIVE GroupSizes(_, _)
GroupSizes(hashes, keys) ==
    IF keys = {} THEN 0
    ELSE Len(hashes[CHOOSE k \in keys : TRUE])
         + GroupSizes(hashes, keys \ {CHOOSE k \in keys : TRUE})

\* The orders in which "range" may visit the keys of a map: all of them.
KeyOrders(keys) ==
    {f \in [1..Cardinality(keys) -> keys] : \A i, j \in DOMAIN f : f[i] = f[j] => i = j}

\* Mutant: the output ID is the position inside the group.
joinOutputPositional(js, i, output, lowCardSeries, highCardSeriesID, lowCardSeriesID, includeLabels) ==
    [js EXCEPT
       !.outputIndex = Append(@, buildOutputSeries(i, output, lowCardSeries,
                                                   includeLabels)),
       !.highCardOutputIndex[highCardSeriesID] = <<i>>,
       !.lowCardOutputIndex[lowCardSeriesID] = Append(@, i)]

\* The body of the inner loop of join (vector.go:238-243) for the i-th series
\* (from 0) of a group.
joinOutput(js, i, output, lowCardSeries, highCardSeriesID, lowCardSeriesID, includeLabels) ==
    [js EXCEPT
       !.outputIndex = Append(@, buildOutputSeries(Len(js.outputIndex), output,
                                                   lowCardSeries, includeLabels)),
       !.highCardOutputIndex[highCardSeriesID] = <<Len(js.outputIndex)>>,
       !.lowCardOutputIndex[lowCardSeriesID] = Append(@, Len(js.outputIndex))]

\* The inner loop of join over the series of one group (vector.go:237-244).
RECURSIVE joinGroup(_, _, _, _, _, _, _)
joinGroup(js, i, highCardSeries, highCardIDs, lowCardSeries, lowCardSeriesID, includeLabels) ==
    IF i >= Len(highCardSeries) THEN js
    ELSE joinGroup(joinOutput(js, i, highCardSeries[i + 1], lowCardSeries,
                              highCardIDs[i + 1], lowCardSeriesID, includeLabels),
                   i + 1, highCardSeries, highCardIDs, lowCardSeries,
                   lowCardSeriesID, includeLabels)

\* One iteration of the outer loop of join (vector.go:232-244).  The store to
\* lowCardOutputIndex[lowCardSeriesID] panics when the ID is outside the array.
joinVisit(js, highCardSeries, highCardIDs, lowCardSeries, lowCardSeriesID, includeLabels) ==
    IF lowCardSeriesID \notin DOMAIN js.lowCardOutputIndex
    THEN [js EXCEPT !.panic = TRUE]
    ELSE joinGroup([js EXCEPT !.lowCardOutputIndex[lowCardSeriesID] = <<>>],
                   0, highCardSeries, highCardIDs, lowCardSeries, lowCardSeriesID,
                   includeLabels)

\* The outer loop of join (vector.go:231-245) over the surviving keys, visited
\* in the order "order".
RECURSIVE joinLoop(_, _, _, _, _, _)
joinLoop(js, n, order, high, low, includeLabels) ==
    IF n > Len(order) \/ js.panic THEN js
    ELSE joinLoop(joinVisit(js, high.hashes[order[n]], high.inputIndex[order[n]],
                            low.hashes[order[n]][1], low.inputIndex[order[n]][1],
                            includeLabels),
                  n + 1, order, high, low, includeLabels)

\* The keys of the high-cardinality side that survive pruning (vector.go:221-227).
Surviving(high, low) == (DOMAIN high.hashes) \cap (DOMAIN low.hashes)

\* join (vector.go:207-248): high and low are what hashSeries returned for the
\* two sides, order the order in which the second loop visits the surviving keys.
join(high, low, includeLabels, order) ==
    joinLoop([outputIndex |-> <<>>,
              highCardOutputIndex |->
                  [x \in 0..(GroupSizes(high.hashes, DOMAIN high.hashes) - 1) |-> <<>>],
              lowCardOutputIndex |->
                  [x \in 0..(Cardinality(DOMAIN low.inputIndex) - 1) |-> <<>>],
              panic |-> FALSE],
             1, order, high, low, includeLabels)

\* slices.Sort of a list of label names (vector.go:56): the occurrences of the
\* least name, then the others sorted.
RECURSIVE SortNames(_)
SortNames(names) ==
    IF names = <<>> THEN <<>>
    ELSE SelectSeq(names,
             LAMBDA x : \A o \in Range(names) : NameRank[x] <= NameRank[o])
         \o SortNames(SelectSeq(names,
                LAMBDA x : \E o \in Range(names) : NameRank[o] < NameRank[x]))

NilTable ==
    [nil |-> TRUE, card |-> "", highCardIndex |-> <<>>, lowCardIndex |-> <<>>]

\* NewVectorOperator (vector.go:40-67).
NewVectorOperator(m) ==
    [onceDone |-> FALSE, groupingLabels |-> SortNames(m.MatchingLabels),
     series |-> <<>>, outputCache |-> <<>>, table |-> NilTable, stepSize |-> 0,
     output |-> <<>>]

\* The matching as hashSeries and signature read it: the sorted copy of the
\* matching labels.
Grouping(o, m) == [m EXCEPT !.MatchingLabels = o.groupingLabels]

\* The metric of the output series with the given ID (vector.go:110-113): the
\* last one written to that slot, nil when none was.
SeriesSlot(output, id) ==
    IF \E k \in 1..Len(output) : output[k].ID = id
    THEN output[CHOOSE k \in 1..Len(output) :
                   /\ output[k].ID = id
                   /\ \A k2 \in 1..Len(output) : output[k2].ID = id => k2 <= k].Metric
    ELSE <<>>

\* initOutputs from the join on (vector.go:108-131), with j what join returned.
initJoined(o, m, highCardSide, j) ==
    IF j.panic THEN [o |-> o, err |-> FALSE, panic |-> "index out of range"]
    ELSE [o |-> [o EXCEPT
                   !.series = [i \in 1..Len(j.outputIndex) |->
                                  SeriesSlot(j.outputIndex, i - 1)],
                   !.outputCache = [i \in 1..Len(j.outputIndex) |-> [t |-> -1]],
                   !.stepSize = Len(highCardSide),
                   !.table = [nil |-> FALSE, card |-> m.Card,
                              highCardIndex |-> j.highCardOutputIndex,
                              lowCardIndex |-> j.lowCardOutputIndex],
                   !.output = j.outputIndex],
          err |-> FALSE, panic |-> ""]

\* initOutputs from the choice of the sides on (vector.go:96-131).
initSides(o, m, highCardSide, lowCardSide, order) ==
    initJoined(o, m, highCardSide,
               join(hashSeries(highCardSide, m.Card # "CardOneToOne", Grouping(o, m)),
                    hashSeries(lowCardSide, m.Card # "CardOneToOne", Grouping(o, m)),
                    m.Include, order))

\* Mutant: the sides are swapped for many-to-one instead of one-to-many.
initOutputsSwapManyToOne(o, ch, m, order) ==
    IF ch.lhs.err \/ ch.rhs.err THEN [o |-> o, err |-> TRUE, panic |-> ""]
    ELSE IF m.Card = "CardManyToOne"
         THEN initSides(o, m, ch.rhs.series, ch.lhs.series, order)
         ELSE initSides(o, m, ch.lhs.series, ch.rhs.series, order)

\* initOutputs (vector.go:86-132).
initOutputs(o, ch, m, order) ==
    IF ch.lhs.err \/ ch.rhs.err THEN [o |-> o, err |-> TRUE, panic |-> ""]
    ELSE IF m.Card = "CardOneToMany"
         THEN initSides(o, m, ch.rhs.series, ch.lhs.series, order)
         ELSE initSides(o, m, ch.lhs.series, ch.rhs.series, order)

\* o.once.Do(func() { err = o.initOutputs(ctx) }) (vector.go:78, 151): only the
\* first call runs initOutputs, and the once is spent however that call ends.
onceInitOutputs(o, ch, m, order) ==
    IF o.onceDone THEN [o |-> o, err |-> FALSE, panic |-> ""]
    ELSE initOutputs([o EXCEPT !.onceDone = TRUE], ch, m, order)

\* The keys the second loop of join would visit for these children.
SurvivingKeys(o, ch, m) ==
    IF ch.lhs.err \/ ch.rhs.err THEN {}
    ELSE Surviving(hashSeries(ch.lhs.series, m.Card # "CardOneToOne", Grouping(o, m)),
                   hashSeries(ch.rhs.series, m.Card # "CardOneToOne", Grouping(o, m)))

\* vectorOperator.Series from the once on (vector.go:79-83).
binSeriesInited(r) ==
    IF r.panic # "" THEN [o |-> r.o, err |-> FALSE, series |-> <<>>, panic |-> r.panic]
    ELSE IF r.err THEN [o |-> r.o, err |-> TRUE, series |-> <<>>, panic |-> ""]
    ELSE [o |-> r.o, err |-> FALSE, series |-> r.o.series, panic |-> ""]

\* vectorOperator.Series (vector.go:76-84).
binSeries(o, ch, m, order) == binSeriesInited(onceInitOutputs(o, ch, m, order))

Min(a, b) == IF a <= b THEN a ELSE b

\* The releases of the loop of Next (vector.go:157-164) from index i (from 0)
\* on, in the order they are made: rhs[i] to the pool of rhs when i < len(rhs),
\* then lhs[i] to the pool of lhs.
RECURSIVE releaseLoop(_, _, _, _)
releaseLoop(puts, i, lhsLen, rhsLen) ==
    IF i >= lhsLen THEN puts
    ELSE releaseLoop(
             (IF i < rhsLen
              THEN Append(puts, [pool |-> "rhs", from |-> "rhs", idx |-> i])
              ELSE puts) \o <<[pool |-> "lhs", from |-> "lhs", idx |-> i]>>,
             i + 1, lhsLen, rhsLen)

\* Mutant: the loop appends a step for every lhs vector.
binNextInitedUnpaired(r, lhsLen, rhsLen) ==
    [o |-> r.o, err |-> FALSE,
     batch |-> [i \in 1..lhsLen |-> [lhs |-> i - 1, rhs |-> i - 1]],
     panic |-> "", puts |-> releaseLoop(<<>>, 0, lhsLen, rhsLen),
     pulled |-> <<"lhs", "rhs">>]

\* vectorOperator.Next from the once on (vector.go:152-168), for child batches
\* of the given lengths: step i of the batch joins lhs[i] with rhs[i] (indices
\* from 0).  A nil table makes execBinaryOperation panic.
binNextInited(r, lhsLen, rhsLen) ==
    IF r.panic # ""
    THEN [o |-> r.o, err |-> FALSE, batch |-> <<>>, panic |-> r.panic,
          puts |-> <<>>, pulled |-> <<"lhs", "rhs">>]
    ELSE IF r.err
    THEN [o |-> r.o, err |-> TRUE, batch |-> <<>>, panic |-> "",
          puts |-> <<>>, pulled |-> <<"lhs", "rhs">>]
    ELSE IF r.o.table.nil
    THEN [o |-> r.o, err |-> FALSE, batch |-> <<>>, panic |-> "nil table",
          puts |-> <<>>, pulled |-> <<"lhs", "rhs">>]
    ELSE [o |-> r.o, err |-> FALSE,
          batch |-> [i \in 1..Min(lhsLen, rhsLen) |-> [lhs |-> i - 1, rhs |-> i - 1]],
          panic |-> "", puts |-> releaseLoop(<<>>, 0, lhsLen, rhsLen),
          pulled |-> <<"lhs", "rhs">>]

\* Mutant: an empty lhs batch ends the call before rhs.Next is invoked.
binNextSkipRhs(o, ch, m, order, lhs, rhs) ==
    IF lhs.err \/ lhs.len = 0
    THEN [o |-> o, err |-> lhs.err, batch |-> <<>>, panic |-> "", puts |-> <<>>,
          pulled |-> <<"lhs">>]
    ELSE IF rhs.err \/ rhs.len = 0
    THEN [o |-> o, err |-> rhs.err, batch |-> <<>>, panic |-> "", puts |-> <<>>,
          pulled |-> <<"lhs", "rhs">>]
    ELSE binNextInited(onceInitOutputs(o, ch, m, order), lhs.len, rhs.len)

\* vectorOperator.Next (vector.go:134-169), with lhs and rhs what the children's
\* Next return; pulled lists the children whose Next the call invoked, in order
\* (rhs.Next is only invoked when lhs.Next returned no error), puts the step
\* vectors it released.
binNext(o, ch, m, order, lhs, rhs) ==
    IF lhs.err
    THEN [o |-> o, err |-> TRUE, batch |-> <<>>, panic |-> "", puts |-> <<>>,
          pulled |-> <<"lhs">>]
    ELSE IF rhs.err
    THEN [o |-> o, err |-> TRUE, batch |-> <<>>, panic |-> "", puts |-> <<>>,
          pulled |-> <<"lhs", "rhs">>]
    ELSE IF lhs.len = 0 \/ rhs.len = 0
    THEN [o |-> o, err |-> FALSE, batch |-> <<>>, panic |-> "", puts |-> <<>>,
          pulled |-> <<"lhs", "rhs">>]
    ELSE binNextInited(onceInitOutputs(o, ch, m, order), lhs.len, rhs.len)

\* What a child's Next may return: an error, or a batch that is empty, holds
\* one vector, or holds MaxBatch vectors.
ChildNextResults ==
    {[err |-> TRUE, len |-> 0]} \cup {[err |-> FALSE, len |-> n] : n \in {0, 1, MaxBatch}}

\* What a child's Series may return: an error, or a list of distinct series.
ChildSeriesResults ==
    {[err |-> TRUE, series |-> <<>>]}
    \cup {[err |-> FALSE, series |-> q] : q \in DistinctSeqs(SeriesUniverse, MaxJoinSeries)}

\* rhs.Next is not called when lhs.Next returned an error (vector.go:135-139).
NotCalled == [err |-> FALSE, len |-> 0]

\* No call has returned yet.  pullLead is the number of lhs.Next calls minus
\* the number of rhs.Next calls, summed over the Next calls so far in which no
\* child's Next returned an error.
BinCallNone(op) ==
    [op |-> op, err |-> FALSE, series |-> <<>>, batch |-> <<>>, panic |-> "",
     initFailed |-> FALSE, pulled |-> <<>>, puts |-> <<>>,
     received |-> [lhs |-> NotCalled, rhs |-> NotCalled],
     pullLead |-> 0]

\* Before the operator is constructed.
BinaryInit ==
    /\ matching = [On |-> FALSE, MatchingLabels |-> <<>>, Card |-> "CardOneToOne",
                   Include |-> <<>>]
    /\ children = [lhs |-> [err |-> FALSE, series |-> <<>>],
                   rhs |-> [err |-> FALSE, series |-> <<>>]]
    /\ bin = NewVectorOperator(matching)
    /\ binCall = BinCallNone("unconstructed")
    /\ spIt = <<>>
    /\ spLookback = 0
    /\ spOffset = 0
    /\ spCall = <<>>
    /\ queryOpts = <<>>
    /\ storage = <<>>
    /\ scan = <<>>
    /\ scanCall = <<>>
    /\ callers = <<>>
    /\ once = <<>>

BinConstructed == binCall.op # "unconstructed"
BinPanicked == binCall.panic # ""

\* The planner constructs the operator over two children for a matching.  What
\* rhs.Series would return is left out when lhs.Series fails (vector.go:88-91).
newVectorOperator ==
    /\ ~BinConstructed
    /\ matching' \in MatchingChoices
    /\ \E l \in ChildSeriesResults :
          \E r \in IF l.err THEN {[err |-> FALSE, series |-> <<>>]}
                    ELSE ChildSeriesResults :
             children' = [lhs |-> l, rhs |-> r]
    /\ bin' = NewVectorOperator(matching')
    /\ binCall' = BinCallNone("none")
    /\ UNCHANGED <<onceVars, selectVars, scanVars>>

\* The orders in which initOutputs, if this call runs it, may visit the keys.
InitOrders ==
    IF bin.onceDone THEN {<<>>}
    ELSE KeyOrders(SurvivingKeys(bin, children, matching))

\* The call returns; initFailed remembers that initOutputs returned an error.
binSeriesReturns(r) ==
    /\ bin' = r.o
    /\ binCall' = [binCall EXCEPT
                     !.op = "Series", !.err = r.err, !.series = r.series,
                     !.batch = <<>>, !.panic = r.panic,
                     !.initFailed = @ \/ (~bin.onceDone /\ r.o.onceDone /\ r.err),
                     !.pulled = <<>>, !.puts = <<>>,
                     !.received = [lhs |-> NotCalled, rhs |-> NotCalled]]

binNextReturns(r, lhs, rhs) ==
    /\ bin' = r.o
    /\ binCall' = [binCall EXCEPT
                     !.op = "Next", !.err = r.err, !.series = <<>>,
                     !.batch = r.batch, !.panic = r.panic,
                     !.initFailed = @ \/ (~bin.onceDone /\ r.o.onceDone /\ r.err),
                     !.pulled = r.pulled, !.puts = r.puts,
                     !.received = [lhs |-> lhs, rhs |-> rhs],
                     !.pullLead = @ + (IF lhs.err \/ rhs.err \/ "rhs" \in Range(r.pulled)
                                       THEN 0 ELSE 1)]

\* A caller invokes Series on the binary operator.  A panic ends the query.
vectorOperatorSeries ==
    /\ BinConstructed
    /\ ~BinPanicked
    /\ \E order \in InitOrders :
          binSeriesReturns(binSeries(bin, children, matching, order))
    /\ UNCHANGED <<onceVars, matching, children, selectVars, scanVars>>

\* A caller invokes Next on the binary operator.
vectorOperatorNext ==
    /\ BinConstructed
    /\ ~BinPanicked
    /\ \E lhs \in ChildNextResults :
          \E rhs \in IF lhs.err THEN {NotCalled} ELSE ChildNextResults :
             \E order \in IF lhs.err \/ rhs.err \/ lhs.len = 0 \/ rhs.len = 0
                           THEN {<<>>} ELSE InitOrders :
                binNextReturns(binNext(bin, children, matching, order, lhs, rhs), lhs, rhs)
    /\ UNCHANGED <<onceVars, matching, children, selectVars, scanVars>>

BinaryNext == newVectorOperator \/ vectorOperatorSeries \/ vectorOperatorNext

SpecBinary == BinaryInit /\ [][BinaryNext]_vars

(***************************************************************************)
(* Claims about the binary operator.  The matching of series is stated     *)
(* here on label sets, without hashes, maps or indices.                    *)
(***************************************************************************)
HighSide ==
    IF matching.Card = "CardOneToMany" THEN children.rhs.series
    ELSE children.lhs.series

LowSide ==
    IF matching.Card = "CardOneToMany" THEN children.lhs.series
    ELSE children.rhs.series

\* The labels two series must agree on to match.
MatchKey(lbls) ==
    IF matching.On
    THEN {l \in Range(lbls) : l.Name \in Range(matching.MatchingLabels)}
    ELSE {l \in Range(lbls) :
             l.Name \notin Range(matching.MatchingLabels) \cup {MetricName}}

\* The high-cardinality series (by position from 1) matching a low-cardinality one.
GroupOf(j) ==
    {i \in 1..Len(HighSide) : MatchKey(HighSide[i]) = MatchKey(LowSide[j])}

Matched(i) == \E j \in 1..Len(LowSide) : i \in GroupOf(j)

MatchedCount == Cardinality({i \in 1..Len(HighSide) : Matched(i)})

ChildrenResolved == ~children.lhs.err /\ ~children.rhs.err

\* initOutputs has run: to completion, or at all.
InitDone == BinConstructed /\ bin.onceDone /\ ~bin.table.nil
InitRan == BinConstructed /\ bin.onceDone /\ ChildrenResolved

\* C3: once initOutputs has failed on a child's Series, no later Series call
\* returns a series set with nil error and no later Next call runs the join
\* with an uninitialized table.
C3_InitErrorSticks ==
    binCall.initFailed =>
        /\ binCall.op = "Series" => binCall.err
        /\ binCall.op = "Next" => binCall.panic # "nil table"

\* C8: after output construction the output IDs are exactly 0..n-1, n the
\* number of high-cardinality series with a match on the low-cardinality side,
\* and Series returns n label sets, entry i the labels of output series i.
C8_DenseOutputIDs ==
    InitDone =>
        /\ Len(bin.output) = MatchedCount
        /\ {bin.output[k].ID : k \in 1..Len(bin.output)} = 0..(MatchedCount - 1)
        /\ Len(bin.series) = MatchedCount
        /\ \A k \in 1..Len(bin.output) :
              bin.series[bin.output[k].ID + 1] = bin.output[k].Metric
        /\ (binCall.op = "Series" /\ ~binCall.err) => binCall.series = bin.series

\* Series has returned two output series of two groups, a third
\* high-cardinality series having no match.
C8_Witness ==
    /\ InitDone
    /\ binCall.op = "Series"
    /\ MatchedCount = 2
    /\ Len(HighSide) = 3
    /\ \E i, j \in 1..Len(HighSide) :
          Matched(i) /\ Matched(j) /\ MatchKey(HighSide[i]) # MatchKey(HighSide[j])

\* The output series the reverse index gives high-cardinality series i.
OutputsOf(i) ==
    {k \in 1..Len(bin.output) : bin.table.highCardIndex[i - 1] = <<bin.output[k].ID>>}

\* C9: for every pair of series sets, construction raises no error, a
\* high-cardinality series with a match gets exactly one output series, to
\* which its slot of the reverse index points, and one without a match gets a
\* null slot.
C9_MatchedHighGetsOneOutput ==
    InitRan =>
        /\ ~BinPanicked
        /\ \A i \in 1..Len(HighSide) :
              IF Matched(i)
              THEN /\ Len(bin.table.highCardIndex[i - 1]) = 1
                   /\ Cardinality(OutputsOf(i)) = 1
              ELSE bin.table.highCardIndex[i - 1] = <<>>

\* The labels an output series of high-cardinality series i and
\* low-cardinality series j carries: the high-cardinality series' own labels
\* (without the metric name) and the include labels of the low-cardinality one.
JoinedLabels(i, j) ==
    {l \in Range(HighSide[i]) : l.Name # MetricName}
    \cup {l \in Range(LowSide[j]) : l.Name \in Range(matching.Include)
                                     /\ l.Name # MetricName}

\* C10: for many-to-one and one-to-many, a low-cardinality series whose group
\* holds k high-cardinality series has a reverse-index entry listing exactly
\* the k output IDs of those series, each carrying the high-cardinality
\* series' labels together with the include labels of that low-cardinality one.
C10_LowSeriesFeedsGroup ==
    (InitRan /\ matching.Card # "CardOneToOne") =>
        /\ ~BinPanicked
        /\ \A j \in 1..Len(LowSide) :
              /\ (j - 1) \in DOMAIN bin.table.lowCardIndex
              /\ Len(bin.table.lowCardIndex[j - 1]) = Cardinality(GroupOf(j))
              /\ Range(bin.table.lowCardIndex[j - 1])
                    = UNION {{bin.output[k].ID : k \in OutputsOf(i)} : i \in GroupOf(j)}
              /\ \A i \in GroupOf(j) : \A k \in OutputsOf(i) :
                    Range(bin.output[k].Metric) = JoinedLabels(i, j)

\* The "many" and the "one" child of the matching, read off the cardinality
\* class alone.
ManyChild == IF matching.Card = "CardOneToMany" THEN children.rhs ELSE children.lhs
OneChild == IF matching.Card = "CardOneToMany" THEN children.lhs ELSE children.rhs

\* The signatures occurring among the series of a child.
KeysOf(child) == {MatchKey(child.series[i]) : i \in 1..Len(child.series)}

\* C11: after output construction the high-cardinality index has one slot per
\* series of the "many" child (lhs for many-to-one, rhs for one-to-many), the
\* low-cardinality index is built from the "one" child, and every output
\* series carries the labels of a series of the "many" child.
C11_OneSideIsLowCard ==
    (InitDone /\ matching.Card # "CardOneToOne") =>
        /\ DOMAIN bin.table.highCardIndex = 0..(Len(ManyChild.series) - 1)
        /\ Cardinality(DOMAIN bin.table.lowCardIndex) = Cardinality(KeysOf(OneChild))
        /\ bin.stepSize = Len(ManyChild.series)
        /\ \A k \in 1..Len(bin.output) :
              \E i \in 1..Len(ManyChild.series) :
                 /\ bin.table.highCardIndex[i - 1] = <<bin.output[k].ID>>
                 /\ SubSeq(bin.output[k].Metric, 1, Len(ManyChild.series[i]) - 1)
                       = DelLabels(ManyChild.series[i], {MetricName})

\* A one-to-many join has completed with children of different sizes and an
\* output series.
C11_Witness ==
    /\ InitDone
    /\ matching.Card = "CardOneToMany"
    /\ Len(children.lhs.series) = 1
    /\ Len(children.rhs.series) = 3
    /\ Len(bin.output) >= 2

\* C13: for every pair of series sets output construction completes, and the
\* low-cardinality reverse index has one slot per low-cardinality input series.
C13_LowCardIndexCoversInputs ==
    InitRan =>
        /\ ~BinPanicked
        /\ DOMAIN bin.table.lowCardIndex = 0..(Len(LowSide) - 1)

\* The label names of a label set are strictly increasing.
SortedByName(lbls) ==
    \A i \in 1..(Len(lbls) - 1) : NameRank[lbls[i].Name] < NameRank[lbls[i + 1].Name]

\* C18: every output series label set is sorted by name, has no label name
\* twice, and has no metric-name label.
C18_OutputLabelsWellFormed ==
    InitDone =>
        \A k \in 1..Len(bin.output) :
           /\ SortedByName(bin.output[k].Metric)
           /\ MetricName \notin NamesOf(bin.output[k].Metric)

\* C19: under one-to-one matching no two output series have the same label
\* set and no low-cardinality series feeds more than one output series.
C19_OneToOneOutputsDistinct ==
    (InitDone /\ matching.Card = "CardOneToOne") =>
        /\ \A k1, k2 \in 1..Len(bin.output) :
              bin.output[k1].Metric = bin.output[k2].Metric => k1 = k2
        /\ \A j \in DOMAIN bin.table.lowCardIndex :
              Len(bin.table.lowCardIndex[j]) <= 1

\* The number of times the last call released vector i (from 0) of a child.
Released(side, i) ==
    Cardinality({k \in 1..Len(binCall.puts) :
                    binCall.puts[k].from = side /\ binCall.puts[k].idx = i})

\* C14: whenever Next returns, every step vector it received from a child has
\* been released exactly once, and to the pool of the child it came from.
C14_ChildVectorsReleasedOnce ==
    (binCall.op = "Next" /\ ~BinPanicked) =>
        /\ \A side \in {"lhs", "rhs"} :
              \A i \in 0..(binCall.received[side].len - 1) : Released(side, i) = 1
        /\ \A k \in 1..Len(binCall.puts) : binCall.puts[k].pool = binCall.puts[k].from

\* C15: a Next call that returns a batch pairs the children's vectors by
\* index: with both child batches non-empty the batch is as long as the
\* shorter of them and its i-th step joins lhs[i] with rhs[i]; with an empty
\* child batch the call returns the exhausted result, no vector and no error.
C15_PairsByBatchIndex ==
    (binCall.op = "Next" /\ ~BinPanicked) =>
        /\ (~binCall.err /\ binCall.received.lhs.len > 0 /\ binCall.received.rhs.len > 0) =>
              /\ Len(binCall.batch) <= binCall.received.lhs.len
              /\ Len(binCall.batch) <= binCall.received.rhs.len
              /\ Len(binCall.batch) \in {binCall.received.lhs.len, binCall.received.rhs.len}
              /\ \A i \in 1..Len(binCall.batch) :
                    binCall.batch[i] = [lhs |-> i - 1, rhs |-> i - 1]
        /\ (/\ ~binCall.received.lhs.err
            /\ ~binCall.received.rhs.err
            /\ (binCall.received.lhs.len = 0 \/ binCall.received.rhs.len = 0)) =>
              (~binCall.err /\ binCall.batch = <<>>)

\* Next has joined a batch of MaxBatch vectors with a batch of one.
C15_Witness ==
    /\ binCall.op = "Next"
    /\ binCall.received.lhs.len = MaxBatch
    /\ binCall.received.rhs.len = 1
    /\ Len(binCall.batch) = 1
    /\ ~binCall.err

\* C16: every Next call invokes lhs.Next first and rhs.Next exactly when
\* lhs.Next returned no error; over the calls in which no child returned an
\* error both children have been pulled equally often.
C16_LhsPulledBeforeRhs ==
    /\ binCall.op = "Next" =>
          /\ Head(binCall.pulled) = "lhs"
          /\ IF binCall.received.lhs.err THEN binCall.pulled = <<"lhs">>
             ELSE binCall.pulled = <<"lhs", "rhs">>
    /\ binCall.pullLead = 0

\* Next has pulled rhs after an empty lhs batch.
C16_Witness ==
    /\ binCall.op = "Next"
    /\ ~binCall.received.lhs.err
    /\ binCall.received.lhs.len = 0
    /\ binCall.received.rhs.len > 0
    /\ binCall.pulled = <<"lhs", "rhs">>
    /\ binCall.pullLead = 0

(***************************************************************************)
(* Lazy initialization under concurrent callers.                           *)
(*                                                                         *)
(* The callers run Series and Next on one operator, the scan operator or   *)
(* the binary operator, which the initial state picks.  A step is one      *)
(* statement of one caller that reads or writes the operator; statements   *)
(* on the caller's locals go with the step before them.  The fields Next   *)
(* writes without synchronization (o.step, o.currentStep, the iterators)   *)
(* are read and written in separate steps, so that concurrent calls of     *)
(* Next show the lost updates such a race can give.                        *)
(***************************************************************************)
MaxCallers == 2

Callers == 1..MaxCallers

\* The operator's sync.Once: done, and the caller holding its mutex (0 for
\* none).  runs counts the executions of the function passed to Do (for the
\* scan, the calls of GetSeries), lhsSeries and rhsSeries the calls of the
\* children's Series.
NewOnce(target) ==
    [target |-> target, done |-> FALSE, holder |-> 0, runs |-> 0,
     lhsSeries |-> 0, rhsSeries |-> 0]

\* sync.Once.Do as seen by a caller: skip the function when done, wait while
\* another caller holds the mutex, run it otherwise.
onceDo(on) ==
    IF on.done THEN "skip" ELSE IF on.holder # 0 THEN "wait" ELSE "run"

\* Do returns to the caller that ran the function: done is set, the mutex is
\* released.
onceDone(on) == [on EXCEPT !.done = TRUE, !.holder = 0]

\* What a call returned; nothing yet.
NothingSeen == [kind |-> "none", series |-> <<>>, table |-> FALSE]

\* The locals of a call: err; joined, the locals of initOutputs between join
\* and the table; ts, vectors and i of the loop of the scan's Next; sum, the
\* new cursor between its computation and its store; lhs and rhs, the lengths
\* of the batches the children returned.
IdleCaller ==
    [pc |-> "idle", op |-> "none", err |-> FALSE, waited |-> FALSE,
     joined |-> <<>>, ts |-> 0, vectors |-> <<>>, i |-> 0, sum |-> 0,
     lhs |-> 0, rhs |-> 0, saw |-> NothingSeen]

\* Mutant: the call goes on without once.Do.
callStartedPastOnce(c, target, op) ==
    [IdleCaller EXCEPT !.pc = "ret", !.op = op]

\* The call is on its way to o.once.Do: Series at once (vector_selector.go:78,
\* vector.go:78), Next of the scan after the cursor check
\* (vector_selector.go:89-93), Next of the binary operator after the children's
\* Next (vector.go:135-151).
callStarted(c, target, op) ==
    [IdleCaller EXCEPT
       !.pc = IF target = "bin" /\ op = "Next" THEN "lhs.Next" ELSE "do",
       !.op = op]

\* The call returns what.
callReturned(c, what) == [IdleCaller EXCEPT !.op = c.op, !.saw = what]

Returns(kind) == [kind |-> kind, series |-> <<>>, table |-> FALSE]

\* A failing storage, or one that resolves MaxSeries series; a failing child,
\* or one that reports two series.
OnceStorages ==
    {[err |-> TRUE, series |-> <<>>],
     [err |-> FALSE,
      series |-> StoredSeries([i \in 1..MaxSeries |->
                                  CHOOSE d \in ScanSeriesData : TRUE])]}

OnceChildSeries ==
    {[err |-> TRUE, series |-> <<>>],
     [err |-> FALSE,
      series |-> CHOOSE q \in DistinctSeqs(SeriesUniverse, 2) : Len(q) = 2]}

\* What a child's Next returns to a caller: an error, an empty batch, or one
\* step vector.
OnceChildNext == {[err |-> TRUE, len |-> 0], [err |-> FALSE, len |-> 0],
                  [err |-> FALSE, len |-> 1]}

OnceMatching ==
    [On |-> FALSE, MatchingLabels |-> <<>>, Card |-> "CardOneToOne", Include |-> <<>>]

NoChildren ==
    [lhs |-> [err |-> FALSE, series |-> <<>>], rhs |-> [err |-> FALSE, series |-> <<>>]]

\* An instant query over a scan operator, or a binary operator over two
\* children.
OnceInit ==
    /\ queryOpts = ZeroOpts
    /\ scan = NewVectorSelector(ZeroOpts)
    /\ matching = OnceMatching
    /\ bin = NewVectorOperator(OnceMatching)
    /\ \/ /\ once = NewOnce("scan")
          /\ storage \in OnceStorages
          /\ children = NoChildren
       \/ /\ once = NewOnce("bin")
          /\ storage = [err |-> FALSE, series |-> <<>>]
          /\ \E l \in OnceChildSeries :
                \E r \in IF l.err THEN {[err |-> FALSE, series |-> <<>>]}
                          ELSE OnceChildSeries :
                   children = [lhs |-> l, rhs |-> r]
    /\ callers = [p \in Callers |-> IdleCaller]
    /\ scanCall = <<>>
    /\ binCall = <<>>
    /\ spIt = <<>>
    /\ spLookback = 0
    /\ spOffset = 0
    /\ spCall = <<>>

OnceFrame == UNCHANGED <<selectVars, queryOpts, storage, scanCall, matching, children, binCall>>

\* A caller enters Series or Next.  Next of the scan returns the exhausted
\* result when the cursor is past the end (vector_selector.go:89-91).
onceCall(p) ==
    /\ callers[p].pc = "idle"
    /\ \E op \in {"Series", "Next"} :
          IF once.target = "scan" /\ op = "Next" /\ scan.currentStep > scan.maxt
          THEN callers' = [callers EXCEPT
                             ![p] = callReturned([@ EXCEPT !.op = op],
                                                 Returns("exhausted"))]
          ELSE callers' = [callers EXCEPT ![p] = callStarted(@, once.target, op)]
    /\ UNCHANGED <<once, scan, bin>>
    /\ OnceFrame

\* Next of the binary operator pulls lhs (vector.go:135-138).
binPullLhs(p) ==
    /\ callers[p].pc = "lhs.Next"
    /\ \E lhs \in OnceChildNext :
          IF lhs.err
          THEN callers' = [callers EXCEPT ![p] = callReturned(@, Returns("error"))]
          ELSE callers' = [callers EXCEPT ![p].pc = "rhs.Next", ![p].lhs = lhs.len]
    /\ UNCHANGED <<once, scan, bin>>
    /\ OnceFrame

\* Next of the binary operator pulls rhs and returns the exhausted result when
\* a batch is empty (vector.go:139-149).
binPullRhs(p) ==
    /\ callers[p].pc = "rhs.Next"
    /\ \E rhs \in OnceChildNext :
          IF rhs.err
          THEN callers' = [callers EXCEPT ![p] = callReturned(@, Returns("error"))]
          ELSE IF callers[p].lhs = 0 \/ rhs.len = 0
          THEN callers' = [callers EXCEPT ![p] = callReturned(@, Returns("exhausted"))]
          ELSE callers' = [callers EXCEPT ![p].pc = "do", ![p].rhs = rhs.len]
    /\ UNCHANGED <<once, scan, bin>>
    /\ OnceFrame

\* The first statement of the function the caller runs under the once.
FirstStep(target) == IF target = "scan" THEN "GetSeries" ELSE "lhs.Series"

\* The caller is in once.Do: it returns at once, takes the mutex and runs the
\* function, or blocks on the mutex until the running caller is through.
onceEnter(p) ==
    /\ callers[p].pc \in {"do", "blocked"}
    /\ \/ /\ onceDo(once) = "skip"
          /\ callers' = [callers EXCEPT ![p].pc = "ret"]
          /\ once' = once
       \/ /\ onceDo(once) = "run"
          /\ callers' = [callers EXCEPT ![p].pc = FirstStep(once.target)]
          /\ once' = [once EXCEPT !.holder = p, !.runs = @ + 1]
       \/ /\ onceDo(once) = "wait"
          /\ callers[p].pc = "do"
          /\ callers' = [callers EXCEPT ![p].pc = "blocked", ![p].waited = TRUE]
          /\ once' = once
    /\ UNCHANGED <<scan, bin>>
    /\ OnceFrame

ZeroScanner == [labels |-> <<>>, signature |-> 0, samples |-> <<>>]

\* loadSeries up to the two make calls (vector_selector.go:130-137): on an
\* error the function returns and the once is done.
scanGetSeries(p) ==
    /\ callers[p].pc = "GetSeries"
    /\ IF storage.err
       THEN /\ callers' = [callers EXCEPT ![p].pc = "ret", ![p].err = TRUE]
            /\ once' = onceDone(once)
            /\ scan' = [scan EXCEPT !.onceDone = TRUE]
       ELSE /\ callers' = [callers EXCEPT ![p].pc = "fill"]
            /\ once' = once
            /\ scan' = [scan EXCEPT
                          !.scanners = [i \in 1..Len(storage.series) |-> ZeroScanner],
                          !.series = [i \in 1..Len(storage.series) |-> <<>>]]
    /\ UNCHANGED bin
    /\ OnceFrame

\* The slots of o.series that the loop has filled so far.
Filled(series) == Cardinality({i \in 1..Len(series) : series[i] # <<>>})

\* One iteration of the loop of loadSeries (vector_selector.go:138-145), or,
\* after the last one, SetStepSize and the return of the function.
scanFill(p) ==
    /\ callers[p].pc = "fill"
    /\ IF Filled(scan.series) < Len(scan.series)
       THEN /\ scan' = [scan EXCEPT
                          !.scanners[Filled(scan.series) + 1] =
                              loadSeries(scan, storage).o.scanners[Filled(scan.series) + 1],
                          !.series[Filled(scan.series) + 1] =
                              loadSeries(scan, storage).o.series[Filled(scan.series) + 1]]
            /\ UNCHANGED <<callers, once>>
       ELSE /\ scan' = [scan EXCEPT !.stepSize = Len(storage.series), !.onceDone = TRUE]
            /\ callers' = [callers EXCEPT ![p].pc = "ret"]
            /\ once' = onceDone(once)
    /\ UNCHANGED bin
    /\ OnceFrame

\* initOutputs calls lhs.Series (vector.go:88-91).
binLhsSeries(p) ==
    /\ callers[p].pc = "lhs.Series"
    /\ IF children.lhs.err
       THEN /\ callers' = [callers EXCEPT ![p].pc = "ret", ![p].err = TRUE]
            /\ once' = onceDone([once EXCEPT !.lhsSeries = @ + 1])
            /\ bin' = [bin EXCEPT !.onceDone = TRUE]
       ELSE /\ callers' = [callers EXCEPT ![p].pc = "rhs.Series"]
            /\ once' = [once EXCEPT !.lhsSeries = @ + 1]
            /\ bin' = bin
    /\ UNCHANGED scan
    /\ OnceFrame

\* initOutputs calls rhs.Series (vector.go:92-95).
binRhsSeries(p) ==
    /\ callers[p].pc = "rhs.Series"
    /\ IF children.rhs.err
       THEN /\ callers' = [callers EXCEPT ![p].pc = "ret", ![p].err = TRUE]
            /\ once' = onceDone([once EXCEPT !.rhsSeries = @ + 1])
            /\ bin' = [bin EXCEPT !.onceDone = TRUE]
       ELSE /\ callers' = [callers EXCEPT ![p].pc = "join"]
            /\ once' = [once EXCEPT !.rhsSeries = @ + 1]
            /\ bin' = bin
    /\ UNCHANGED scan
    /\ OnceFrame

\* initOutputs joins the sides and stores the series (vector.go:96-114); a
\* panic of join ends the caller, and the once is done all the same.
binJoin(p) ==
    /\ callers[p].pc = "join"
    /\ \E order \in KeyOrders(SurvivingKeys(bin, children, matching)) :
          IF initOutputs(bin, children, matching, order).panic # ""
          THEN /\ callers' = [callers EXCEPT ![p].pc = "panicked"]
               /\ once' = onceDone(once)
               /\ bin' = [bin EXCEPT !.onceDone = TRUE]
          ELSE /\ callers' = [callers EXCEPT
                                ![p].pc = "table",
                                ![p].joined = initOutputs(bin, children, matching, order).o]
               /\ once' = once
               /\ bin' = [bin EXCEPT
                            !.series = initOutputs(bin, children, matching, order).o.series]
    /\ UNCHANGED scan
    /\ OnceFrame

\* initOutputs builds the cache and the table from what join returned and
\* returns (vector.go:116-131).
binTable(p) ==
    /\ callers[p].pc = "table"
    /\ bin' = [callers[p].joined EXCEPT !.onceDone = TRUE]
    /\ callers' = [callers EXCEPT ![p].pc = "ret", ![p].joined = <<>>]
    /\ once' = onceDone(once)
    /\ UNCHANGED scan
    /\ OnceFrame

\* once.Do has returned.  The error of the function is returned; Series
\* returns o.series (vector_selector.go:78-81, vector.go:79-83); Next of the
\* scan takes a batch and reads the cursor (vector_selector.go:93-98); Next of
\* the binary operator joins the batches through the table, which panics when
\* there is none (vector.go:152-168).
onceReturn(p) ==
    /\ callers[p].pc = "ret"
    /\ IF callers[p].err
       THEN callers' = [callers EXCEPT ![p] = callReturned(@, Returns("error"))]
       ELSE IF callers[p].op = "Series"
       THEN callers' = [callers EXCEPT
                          ![p] = callReturned(@,
                                    [kind |-> "series",
                                     series |-> IF once.target = "scan"
                                                THEN scan.series ELSE bin.series,
                                     table |-> FALSE])]
       ELSE IF once.target = "scan"
       THEN callers' = [callers EXCEPT ![p].pc = "loop", ![p].ts = scan.currentStep,
                                       ![p].vectors = GetVectorBatch, ![p].i = 1]
       ELSE IF bin.table.nil
       THEN callers' = [callers EXCEPT ![p].pc = "panicked"]
       ELSE callers' = [callers EXCEPT
                          ![p] = callReturned(@,
                                    [kind |-> "batch", series |-> bin.series,
                                     table |-> TRUE])]
    /\ UNCHANGED <<once, scan, bin>>
    /\ OnceFrame

\* What the inner loop of Next leaves for scanner i of caller c
\* (vector_selector.go:100-115).
scannerVisited(c) == seriesLoop(scan, c.vectors, scan.scanners[c.i], c.ts, 0)

\* One iteration of the loop of Next over the scanners
\* (vector_selector.go:99-116): the steps of one series.
scanNextScanner(p) ==
    /\ callers[p].pc = "loop"
    /\ IF callers[p].i <= Len(scan.scanners)
       THEN /\ scan' = [scan EXCEPT
                          !.scanners[callers[p].i] = scannerVisited(callers[p]).series]
            /\ callers' = [callers EXCEPT
                             ![p].vectors = scannerVisited(callers[p]).vectors,
                             ![p].i = @ + 1]
       ELSE /\ scan' = [scan EXCEPT !.step = IF scan.step = 0 THEN 1 ELSE scan.step]
            /\ callers' = [callers EXCEPT ![p].pc = "advance"]
    /\ UNCHANGED <<once, bin>>
    /\ OnceFrame

\* o.currentStep += o.step * numSteps (vector_selector.go:122): the sum is
\* computed, then stored, and Next returns the batch.
scanNextAdvance(p) ==
    /\ \/ /\ callers[p].pc = "advance"
          /\ callers' = [callers EXCEPT
                           ![p].pc = "store",
                           ![p].sum = scan.currentStep + scan.step * scan.numSteps]
          /\ scan' = scan
       \/ /\ callers[p].pc = "store"
          /\ scan' = [scan EXCEPT !.currentStep = callers[p].sum]
          /\ callers' = [callers EXCEPT
                           ![p] = callReturned(@, [kind |-> "batch",
                                                   series |-> scan.series,
                                                   table |-> FALSE])]
    /\ UNCHANGED <<once, bin>>
    /\ OnceFrame

OnceNext ==
    \E p \in Callers :
       \/ onceCall(p)
       \/ binPullLhs(p)
       \/ binPullRhs(p)
       \/ onceEnter(p)
       \/ scanGetSeries(p)
       \/ scanFill(p)
       \/ binLhsSeries(p)
       \/ binRhsSeries(p)
       \/ binJoin(p)
       \/ binTable(p)
       \/ onceReturn(p)
       \/ scanNextScanner(p)
       \/ scanNextAdvance(p)

SpecOnce == OnceInit /\ [][OnceNext]_vars

\* The complete series sets of the two operators.
ScanSeriesComplete == [i \in 1..Len(storage.series) |-> storage.series[i].Labels]

BinSeriesComplete(series) ==
    /\ Len(series) = MatchedCount
    /\ \A i \in 1..Len(series) : series[i] # <<>>

\* The caller has come out of once.Do and has not returned.
PastOnce(p) == callers[p].pc \in {"ret", "loop", "advance", "store"}

\* The initialization did not fail.
InitSucceeds == ~storage.err /\ ChildrenResolved

\* C12: the scan operator calls GetSeries at most once and the binary operator
\* runs initOutputs, and with it each child's Series, at most once, whatever
\* the interleaving and also after a failure; a caller that is past once.Do
\* finds the initialization finished, and where it succeeded the caller
\* finds, and Series returns, the complete series set.
C12_InitRunsOnce ==
    /\ once.runs <= 1
    /\ once.lhsSeries <= 1
    /\ once.rhsSeries <= 1
    /\ \A p \in Callers :
          /\ PastOnce(p) => once.done
          /\ (PastOnce(p) /\ InitSucceeds /\ once.target = "scan") =>
                (scan.series = ScanSeriesComplete
                 /\ Len(scan.scanners) = Len(storage.series))
          /\ (PastOnce(p) /\ InitSucceeds /\ once.target = "bin") =>
                (BinSeriesComplete(bin.series) /\ ~bin.table.nil)
          /\ (callers[p].saw.kind \in {"series", "batch"} /\ InitSucceeds) =>
                IF once.target = "scan"
                THEN callers[p].saw.series = ScanSeriesComplete
                ELSE BinSeriesComplete(callers[p].saw.series)

\* A caller of Next that had to wait for the initialization another caller ran
\* from Series has come out of once.Do of the binary operator.
C12_Witness ==
    \E p, q \in Callers :
       /\ p # q
       /\ once.target = "bin"
       /\ callers[p].pc = "ret"
       /\ callers[p].op = "Next"
       /\ callers[p].waited
       /\ callers[q].op = "Series"
       /\ callers[q].saw.kind = "series"
       /\ ChildrenResolved
       /\ Len(bin.series) = 2
       /\ once.runs = 1

====
